---- MODULE Spec2Model ----
(***************************************************************************)
(* Model of src/player.py: RandomAudioPlayer, a switch-controlled shuffled *)
(* audio player.  Two threads execute the class: the main thread runs      *)
(* __init__ (load_playlist) and then run(), the input device's callback    *)
(* thread runs start_playing / stop_playing.  The code takes no lock, so   *)
(* the threads interleave between statements.  One model step is one       *)
(* source statement; the read-modify-write of current_index (line 75) and  *)
(* each swap of random.shuffle are split into their read and their write.  *)
(***************************************************************************)
EXTENDS Integers, Sequences, FiniteSets, TLC

\* ---------------------------------------------------------------- bounds
\* Largest number of directory entries the scanned tree holds.
MaxFiles == 3
\* Cap of the counter of "No tracks to play" log lines.
MaxLogs == 2
\* Largest number of directory entries of a tree scanned on its own.
MaxScan == 3

\* ------------------------------------------------------------ file names
\* A file name is a sequence of characters.
\* str.lower() on one character (only the letters the names use).
LowerChar(c) ==
    CASE c = "A" -> "a" [] c = "C" -> "c" [] c = "F" -> "f" [] c = "G" -> "g"
      [] c = "L" -> "l" [] c = "M" -> "m" [] c = "O" -> "o" [] c = "P" -> "p"
      [] c = "T" -> "t" [] c = "V" -> "v" [] c = "W" -> "w" [] c = "X" -> "x"
      [] OTHER -> c

\* str.lower()
Lower(name) == [k \in 1..Len(name) |-> LowerChar(name[k])]

\* str.endswith(suffix)
EndsWith(name, suffix) ==
    /\ Len(suffix) <= Len(name)
    /\ SubSeq(name, Len(name) - Len(suffix) + 1, Len(name)) = suffix

\* SUPPORTED_FORMATS = ('.mp3', '.wav', '.ogg', '.flac', '.m4a', '.aac')
SUPPORTED_FORMATS ==
    { <<".", "m", "p", "3">>, <<".", "w", "a", "v">>, <<".", "o", "g", "g">>,
      <<".", "f", "l", "a", "c">>, <<".", "m", "4", "a">>, <<".", "a", "a", "c">> }

\* Mutation of line 50: the name is not lower-cased.
SupportedCaseSensitive(name) ==
    \E s \in SUPPORTED_FORMATS : EndsWith(name, s)

\* file.lower().endswith(SUPPORTED_FORMATS)
Supported(name) ==
    \E s \in SUPPORTED_FORMATS : EndsWith(Lower(name), s)

\* The entries os.walk yields, in walk order: the three files of the scan
\* scenario {a.mp3, b.txt, c.FLAC} and a sub-directory whose name looks like
\* an audio file.  os.walk lists a sub-directory in `dirs`, never in `files`.
Catalogue ==
    << [kind |-> "file", name |-> <<"a", ".", "m", "p", "3">>],
       [kind |-> "file", name |-> <<"b", ".", "t", "x", "t">>],
       [kind |-> "file", name |-> <<"c", ".", "F", "L", "A", "C">>],
       [kind |-> "dir",  name |-> <<"d", ".", "o", "g", "g">>] >>

\* The directory trees the model starts from: the first n entries of the
\* catalogue, n up to MaxFiles.
Trees ==
    { SubSeq(Catalogue, 1, n) : n \in 0..(IF MaxFiles < Len(Catalogue)
                                          THEN MaxFiles ELSE Len(Catalogue)) }

\* The entries of the trees load_playlist is run on alone: those of the
\* catalogue and files whose names come close to a supported one (no dot, the
\* extension in the middle, mixed case, nothing before the extension).
ScanEntries ==
    { Catalogue[k] : k \in 1..Len(Catalogue) } \cup
    { [kind |-> "file", name |-> <<"m", "p", "3">>],
      [kind |-> "file", name |-> <<"e", ".", "m", "p", "3", ".", "x">>],
      [kind |-> "file", name |-> <<"f", ".", "M", "4", "a">>],
      [kind |-> "file", name |-> <<".", "w", "a", "v">>] }

\* Every walk of at most MaxScan of these entries, repetitions included (the
\* same name in two directories).
ScanTrees ==
    UNION { [1..n -> ScanEntries] : n \in 0..MaxScan }

\* ----------------------------------------------------------------- state
VARIABLES
    exists,         \* os.path.exists(self.music_dir)
    tree,           \* the entries os.walk yields, in walk order
    scan,           \* load_playlist: number of entries already examined
    playlist,       \* self.playlist: sequence of tracks (a track is the
                    \* position of its file in the walk, hence its full path)
    current_index,  \* self.current_index (0-based)
    is_playing,     \* self.is_playing
    status,         \* self.player.get_state()
    media,          \* the media set on self.player (0: none)
    pc,             \* pc[t]: the statement thread t executes next
    ret,            \* ret[t]: where thread t continues after play_next/shuffle
    track,          \* play_next's local `track`, per thread
    nidx,           \* value computed by the right-hand side of line 75
    si, sj, sv,     \* random.shuffle's i, j and the pair read for the swap
    cbCmds,         \* backend commands of the current/last switch callback
    pollCmds,       \* backend commands of the current poll cycle
    pollSaw,        \* what the poll cycle read from is_playing ("none" before)
    pollState,      \* what the poll cycle read from get_state ("none": no query)
    cbEvt,          \* the current/last switch callback: "none", "start", "stop"
    cbSaw,          \* what that callback read from is_playing (FALSE before its test)
    actRun,         \* consecutive start_playing calls handled (capped at 2)
    actLoads,       \* play() commands issued by the calls of that run
    actAdv,         \* writes of current_index by the calls of that run
    seen,           \* tracks play_next returned in the current block of len(playlist)
    repeat,         \* the track play_next just returned was already in seen
    emptyLogs,      \* "No tracks to play" lines since the last accepted activation
    lastCmd         \* the most recent backend command and the thread that sent it

shared  == <<playlist, current_index, is_playing>>
backend == <<status, media>>
ctl     == <<pc, ret>>
locals  == <<track, nidx, si, sj, sv>>
fs      == <<exists, tree, scan>>
cbHist  == <<cbCmds, cbEvt, cbSaw, actRun, actLoads, actAdv>>
pollHist == <<pollCmds, pollSaw, pollState>>
hist    == <<cbHist, pollHist, seen, repeat, emptyLogs, lastCmd>>
vars    == <<shared, backend, ctl, locals, fs, hist>>

Threads == {"main", "cb"}

Statuses ==
    {"NothingSpecial", "Playing", "Paused", "Buffering", "Stopped", "Ended",
     "Error"}

PnLabels == {"pn_check", "pn_get", "pn_load", "pn_play", "pn_rd", "pn_wr", "pn_chk0"}
ShLabels == {"sh_pick", "sh_write"}

Cmd(op, arg, by) == [op |-> op, arg |-> arg, by |-> by]
Last(op, by) == [op |-> op, by |-> by]
NoCmd == Last("none", "none")

Min(a, b) == IF a < b THEN a ELSE b

\* __init__, lines 21-26: the fields before the callbacks are registered.
InitWith(trees) ==
    /\ exists \in BOOLEAN
    /\ tree \in trees
    /\ (~exists => tree = <<>>)
    /\ scan = 0
    /\ playlist = <<>>
    /\ current_index = 0
    /\ is_playing = FALSE
    /\ status = "NothingSpecial"
    /\ media = 0
    /\ pc = [t \in Threads |-> IF t = "main" THEN "register" ELSE "idle"]
    /\ ret = [t \in Threads |-> IF t = "main" THEN "poll" ELSE "idle"]
    /\ track = [t \in Threads |-> 0]
    /\ nidx = [t \in Threads |-> 0]
    /\ si = [t \in Threads |-> 0]
    /\ sj = [t \in Threads |-> 0]
    /\ sv = [t \in Threads |-> <<0, 0>>]
    /\ cbCmds = <<>>
    /\ pollCmds = <<>>
    /\ pollSaw = "none"
    /\ pollState = "none"
    /\ cbEvt = "none"
    /\ cbSaw = FALSE
    /\ actRun = 0
    /\ actLoads = 0
    /\ actAdv = 0
    /\ seen = {}
    /\ repeat = FALSE
    /\ emptyLogs = 0
    /\ lastCmd = NoCmd

Init == InitWith(Trees)

\* -------------------------------------------------------------- helpers
\* Thread t continues at label l.
Goto(t, l) == pc' = [pc EXCEPT ![t] = l]

\* Thread t returns from play_next / random.shuffle to its caller.
Return(t) ==
    /\ pc' = [pc EXCEPT ![t] = ret[t]]
    /\ track' = [track EXCEPT ![t] = 0]
    /\ nidx' = [nidx EXCEPT ![t] = 0]
    /\ si' = [si EXCEPT ![t] = 0]
    /\ sj' = [sj EXCEPT ![t] = 0]
    /\ sv' = [sv EXCEPT ![t] = <<0, 0>>]

\* Thread t sends command c to the media backend.
Issue(t, c) ==
    /\ lastCmd' = Last(c.op, c.by)
    /\ IF t = "cb"
       THEN cbCmds' = Append(cbCmds, c) /\ UNCHANGED pollCmds
       ELSE pollCmds' = Append(pollCmds, c) /\ UNCHANGED cbCmds

\* The switch callbacks are delivered from line 32/33 on, one at a time, until
\* the process exits.
Registered == pc["main"] \notin {"register", "done"}

\* ------------------------------------------------- __init__ / load_playlist
\* Lines 29-33: Button(17), when_pressed, when_released.
Register ==
    /\ pc["main"] = "register"
    /\ Goto("main", "lp_reset")
    /\ UNCHANGED <<shared, backend, ret, locals, fs, hist>>

\* Line 41: self.playlist = []
LpReset ==
    /\ pc["main"] = "lp_reset"
    /\ playlist' = <<>>
    /\ Goto("main", "lp_exists")
    /\ UNCHANGED <<current_index, is_playing, backend, ret, locals, fs, hist>>

\* Lines 43-45: a missing directory leaves the playlist empty.
LpExists ==
    /\ pc["main"] = "lp_exists"
    /\ IF exists THEN Goto("main", "lp_walk") ELSE Goto("main", "poll")
    /\ UNCHANGED <<shared, backend, ret, locals, fs, hist>>

\* Lines 47-51: one entry of the walk; a supported file is appended.
LpWalk ==
    /\ pc["main"] = "lp_walk"
    /\ IF scan < Len(tree)
       THEN /\ scan' = scan + 1
            /\ playlist' =
                 IF tree[scan + 1].kind = "file" /\ Supported(tree[scan + 1].name)
                 THEN Append(playlist, scan + 1)
                 ELSE playlist
            /\ UNCHANGED pc
       ELSE /\ Goto("main", "lp_check")
            /\ UNCHANGED <<scan, playlist>>
    /\ UNCHANGED <<current_index, is_playing, backend, ret, locals, exists, tree, hist>>

\* Lines 53-57: a non-empty playlist is shuffled; then __init__ returns and
\* run() starts.
LpCheck ==
    /\ pc["main"] = "lp_check"
    /\ IF playlist # <<>>
       THEN /\ si' = [si EXCEPT !["main"] = Len(playlist) - 1]
            /\ Goto("main", "sh_pick")
       ELSE /\ Goto("main", "poll")
            /\ UNCHANGED si
    /\ ret' = [ret EXCEPT !["main"] = "poll"]
    /\ UNCHANGED <<shared, backend, track, nidx, sj, sv, fs, hist>>

\* ------------------------------------------------------------ random.shuffle
\* for i in reversed(range(1, len(x))): j = randbelow(i + 1); and the
\* right-hand side of the swap x[i], x[j] = x[j], x[i].
ShPick(t) ==
    /\ pc[t] = "sh_pick"
    /\ IF si[t] < 1
       THEN Return(t)
       ELSE /\ \E j \in 0..si[t] :
                 /\ sj' = [sj EXCEPT ![t] = j]
                 /\ sv' = [sv EXCEPT ![t] = <<playlist[si[t] + 1], playlist[j + 1]>>]
            /\ Goto(t, "sh_write")
            /\ UNCHANGED <<track, nidx, si>>
    /\ UNCHANGED <<shared, backend, ret, fs, hist>>

\* The two stores of the swap: x[i] takes the old x[j], then x[j] the old x[i].
ShWrite(t) ==
    /\ pc[t] = "sh_write"
    /\ playlist' = [[playlist EXCEPT ![si[t] + 1] = sv[t][2]]
                              EXCEPT ![sj[t] + 1] = sv[t][1]]
    /\ si' = [si EXCEPT ![t] = si[t] - 1]
    /\ sj' = [sj EXCEPT ![t] = 0]
    /\ sv' = [sv EXCEPT ![t] = <<0, 0>>]
    /\ Goto(t, "sh_pick")
    /\ UNCHANGED <<current_index, is_playing, backend, ret, track, nidx, fs, hist>>


\* ------------------------------------------------------------------ play_next
\* Mutation of line 75: the modulo is missing.
NextIndexNoWrap(i, n) == i + 1

\* Line 75, right-hand side.
NextIndex(i, n) == (i + 1) % n

\* Mutation of line 66: every call takes the first track.
TrackAtStart(pl, i) == pl[1]

\* Line 66: self.playlist[self.current_index]
TrackAt(pl, i) == pl[i + 1]

\* Line 78: the cursor wrapped.
Wrapped(i) == i = 0

\* Lines 61-63: an empty playlist is logged and nothing else happens.
PnCheck(t) ==
    /\ pc[t] = "pn_check"
    /\ IF playlist = <<>>
       THEN /\ emptyLogs' = Min(emptyLogs + 1, MaxLogs)
            /\ Return(t)
       ELSE /\ Goto(t, "pn_get")
            /\ UNCHANGED <<emptyLogs, locals>>
    /\ UNCHANGED <<shared, backend, ret, fs, cbHist, pollHist, seen, repeat, lastCmd>>

\* Line 66: track = self.playlist[self.current_index]
PnGet(t) ==
    /\ pc[t] = "pn_get"
    /\ track' = [track EXCEPT ![t] = TrackAt(playlist, current_index)]
    /\ repeat' = (track'[t] \in seen)
    /\ seen' = IF repeat' THEN (IF Len(playlist) <= 1 THEN {} ELSE {track'[t]})
               ELSE IF Cardinality(seen) + 1 >= Len(playlist) THEN {}
               ELSE seen \cup {track'[t]}
    /\ Goto(t, "pn_load")
    /\ UNCHANGED <<shared, backend, ret, nidx, si, sj, sv, fs, cbHist, pollHist,
                   emptyLogs, lastCmd>>

\* Lines 70-71: media_new(track), set_media(media)
PnLoad(t) ==
    /\ pc[t] = "pn_load"
    /\ media' = track[t]
    /\ Issue(t, Cmd("load", track[t], t))
    /\ repeat' = FALSE
    /\ Goto(t, "pn_play")
    /\ UNCHANGED <<shared, status, ret, locals, fs, cbEvt, cbSaw, actRun, actLoads,
                   actAdv, pollSaw, pollState, seen, emptyLogs>>

\* Line 72: self.player.play()
PnPlay(t) ==
    /\ pc[t] = "pn_play"
    /\ status' = "Playing"
    /\ Issue(t, Cmd("play", 0, t))
    /\ actLoads' = IF t = "cb" THEN Min(actLoads + 1, 2) ELSE actLoads
    /\ Goto(t, "pn_rd")
    /\ UNCHANGED <<shared, media, ret, locals, fs, cbEvt, cbSaw, actRun, actAdv,
                   pollSaw, pollState, seen, repeat, emptyLogs>>

\* Line 75, the read: (self.current_index + 1) % len(self.playlist)
PnRd(t) ==
    /\ pc[t] = "pn_rd"
    /\ nidx' = [nidx EXCEPT ![t] = NextIndex(current_index, Len(playlist))]
    /\ Goto(t, "pn_wr")
    /\ UNCHANGED <<shared, backend, ret, track, si, sj, sv, fs, hist>>

\* Line 75, the store to self.current_index.
PnWr(t) ==
    /\ pc[t] = "pn_wr"
    /\ current_index' = nidx[t]
    /\ actAdv' = IF t = "cb" THEN Min(actAdv + 1, 2) ELSE actAdv
    /\ Goto(t, "pn_chk0")
    /\ UNCHANGED <<playlist, is_playing, backend, ret, locals, fs, cbCmds, cbEvt,
                   cbSaw, actRun, actLoads, pollHist, seen, repeat, emptyLogs, lastCmd>>

\* Lines 78-80: reshuffle when the cursor is back at 0.
PnChk0(t) ==
    /\ pc[t] = "pn_chk0"
    /\ IF Wrapped(current_index)
       THEN /\ si' = [si EXCEPT ![t] = Len(playlist) - 1]
            /\ Goto(t, "sh_pick")
            /\ UNCHANGED <<track, nidx, sj, sv>>
       ELSE Return(t)
    /\ UNCHANGED <<shared, backend, ret, fs, hist>>

\* ------------------------------------------------------- switch callbacks
\* Mutation of line 84: every activation starts a track.
StartGuardAlways(playing) == TRUE

\* Mutation of line 84: no activation is accepted.
StartGuardNever(playing) == FALSE

\* Line 84
StartGuard(playing) == ~playing

\* Mutation of line 91: the test is inverted.
StopGuardInverted(playing) == ~playing

\* Mutation of line 91: every deactivation stops the player.
StopGuardAlways(playing) == TRUE

\* Line 91
StopGuard(playing) == playing

\* The input device calls when_pressed: start_playing is entered.
SwitchActivated ==
    /\ Registered
    /\ pc["cb"] = "idle"
    /\ cbEvt' = "start"
    /\ cbCmds' = <<>>
    /\ actRun' = Min(actRun + 1, 2)
    /\ cbSaw' = FALSE
    /\ Goto("cb", "sp_check")
    /\ UNCHANGED <<shared, backend, ret, locals, fs, actLoads, actAdv, pollHist,
                   seen, repeat, emptyLogs, lastCmd>>

\* start_playing, lines 84-86; line 87 continues in play_next.
StartPlaying ==
    /\ Registered
    /\ pc["cb"] = "sp_check"
    /\ cbSaw' = is_playing
    /\ IF StartGuard(is_playing)
       THEN /\ is_playing' = TRUE
            /\ emptyLogs' = 0
            /\ Goto("cb", "pn_check")
       ELSE /\ Goto("cb", "idle")
            /\ UNCHANGED <<is_playing, emptyLogs>>
    /\ UNCHANGED <<playlist, current_index, backend, ret, locals, fs, cbCmds, cbEvt,
                   actRun, actLoads, actAdv, pollHist, seen, repeat, lastCmd>>

\* The input device calls when_released: stop_playing is entered.
SwitchDeactivated ==
    /\ Registered
    /\ pc["cb"] = "idle"
    /\ cbEvt' = "stop"
    /\ cbCmds' = <<>>
    /\ actRun' = 0
    /\ actLoads' = 0
    /\ actAdv' = 0
    /\ cbSaw' = FALSE
    /\ Goto("cb", "st_check")
    /\ UNCHANGED <<shared, backend, ret, locals, fs, pollHist, seen, repeat,
                   emptyLogs, lastCmd>>

\* stop_playing, lines 91-93.
StopPlaying ==
    /\ Registered
    /\ pc["cb"] = "st_check"
    /\ cbSaw' = is_playing
    /\ IF StopGuard(is_playing)
       THEN /\ is_playing' = FALSE
            /\ Goto("cb", "st_stop")
       ELSE /\ Goto("cb", "idle")
            /\ UNCHANGED is_playing
    /\ UNCHANGED <<playlist, current_index, backend, ret, locals, fs, cbCmds, cbEvt,
                   actRun, actLoads, actAdv, pollHist, seen, repeat, emptyLogs,
                   lastCmd>>

\* stop_playing, line 94: self.player.stop()
StStop ==
    /\ pc["cb"] = "st_stop"
    /\ Registered
    /\ status' = "Stopped"
    /\ Issue("cb", Cmd("stop", 0, "cb"))
    /\ Goto("cb", "idle")
    /\ UNCHANGED <<shared, media, ret, locals, fs, cbEvt, cbSaw, actRun, actLoads,
                   actAdv, pollSaw, pollState, seen, repeat, emptyLogs>>

\* ------------------------------------------------------------------- run
\* Mutation of line 106: the backend is queried in every cycle.
PollGuardAlways(playing) == TRUE

\* Line 106
PollGuard(playing) == playing

\* Mutation of line 109: a paused track counts as finished.
FinishedOrPaused(state) == state \in {"Ended", "Stopped", "Paused"}

\* Mutation of line 109: only an unexpected stop counts as finished.
FinishedStoppedOnly(state) == state = "Stopped"

\* Line 109
Finished(state) == state = "Ended" \/ state = "Stopped"

\* Line 106: if self.is_playing
Poll ==
    /\ pc["main"] = "poll"
    /\ pollSaw' = IF is_playing THEN "PLAYING" ELSE "IDLE"
    /\ IF PollGuard(is_playing)
       THEN Goto("main", "get_state")
       ELSE Goto("main", "sleep")
    /\ UNCHANGED <<shared, backend, ret, locals, fs, cbHist, pollCmds, pollState,
                   seen, repeat, emptyLogs, lastCmd>>

\* Lines 108-110: state = self.player.get_state(); Ended or Stopped calls
\* play_next.
GetState ==
    /\ pc["main"] = "get_state"
    /\ pollState' = status
    /\ IF Finished(status)
       THEN Goto("main", "pn_check")
       ELSE Goto("main", "sleep")
    /\ ret' = [ret EXCEPT !["main"] = "sleep"]
    /\ UNCHANGED <<shared, backend, locals, fs, cbHist, pollCmds, pollSaw, seen, repeat,
                   emptyLogs, lastCmd>>

\* Line 112: time.sleep(0.5); the poll cycle is over.
Sleep ==
    /\ pc["main"] = "sleep"
    /\ Goto("main", "poll")
    /\ pollCmds' = <<>>
    /\ pollSaw' = "none"
    /\ pollState' = "none"
    /\ UNCHANGED <<shared, backend, ret, locals, fs, cbHist, seen, repeat,
                   emptyLogs, lastCmd>>

\* The main thread is inside the try block of run().
InRun ==
    \/ pc["main"] \in {"poll", "get_state", "sleep"}
    \/ pc["main"] \in PnLabels \cup ShLabels /\ ret["main"] = "sleep"

\* Line 114: KeyboardInterrupt raised at any statement of the loop.
Interrupt ==
    /\ InRun
    /\ Goto("main", "exit")
    /\ track' = [track EXCEPT !["main"] = 0]
    /\ nidx' = [nidx EXCEPT !["main"] = 0]
    /\ si' = [si EXCEPT !["main"] = 0]
    /\ sj' = [sj EXCEPT !["main"] = 0]
    /\ sv' = [sv EXCEPT !["main"] = <<0, 0>>]
    /\ UNCHANGED <<shared, backend, ret, fs, hist>>

\* Line 116: self.player.stop().
Exit ==
    /\ pc["main"] = "exit"
    /\ status' = "Stopped"
    /\ lastCmd' = Last("stop", "main")
    /\ Goto("main", "bye")
    /\ UNCHANGED <<shared, media, ret, locals, fs, cbHist, pollHist, seen,
                   repeat, emptyLogs>>

\* Line 117 and the return of run() and main(): the process exits, and the
\* callback thread with it.
Goodbye ==
    /\ pc["main"] = "bye"
    /\ Goto("main", "done")
    /\ UNCHANGED <<shared, backend, ret, locals, fs, hist>>

\* ------------------------------------------------------------ the backend
\* The track given to the player reaches its end.
TrackEnds ==
    /\ pc["main"] # "done"
    /\ status = "Playing"
    /\ status' = "Ended"
    /\ UNCHANGED <<shared, media, ctl, locals, fs, hist>>

\* The player cannot decode the file it was given.
TrackFails ==
    /\ pc["main"] # "done"
    /\ status = "Playing"
    /\ status' = "Error"
    /\ UNCHANGED <<shared, media, ctl, locals, fs, hist>>

\* The player waits for data.
BufferStarts ==
    /\ pc["main"] # "done"
    /\ status = "Playing"
    /\ status' = "Buffering"
    /\ UNCHANGED <<shared, media, ctl, locals, fs, hist>>

\* The player has its data and plays on.
BufferEnds ==
    /\ pc["main"] # "done"
    /\ status = "Buffering"
    /\ status' = "Playing"
    /\ UNCHANGED <<shared, media, ctl, locals, fs, hist>>

\* The player is paused from outside the program (the code never calls
\* pause(), but get_state() can return vlc.State.Paused).
PauseStarts ==
    /\ pc["main"] # "done"
    /\ status = "Playing"
    /\ status' = "Paused"
    /\ UNCHANGED <<shared, media, ctl, locals, fs, hist>>

\* The player is resumed from outside the program.
PauseEnds ==
    /\ pc["main"] # "done"
    /\ status = "Paused"
    /\ status' = "Playing"
    /\ UNCHANGED <<shared, media, ctl, locals, fs, hist>>

\* ------------------------------------------------------------ specification
MainStep ==
    \/ Register \/ LpReset \/ LpExists \/ LpWalk \/ LpCheck
    \/ Poll \/ GetState \/ Sleep \/ Exit \/ Goodbye
    \/ PnCheck("main") \/ PnGet("main") \/ PnLoad("main") \/ PnPlay("main")
    \/ PnRd("main") \/ PnWr("main") \/ PnChk0("main")
    \/ ShPick("main") \/ ShWrite("main")

CbRunning == Registered /\ pc["cb"] # "idle"

CbStep ==
    /\ CbRunning
    /\ \/ StartPlaying \/ StopPlaying \/ StStop
       \/ PnCheck("cb") \/ PnGet("cb") \/ PnLoad("cb") \/ PnPlay("cb")
       \/ PnRd("cb") \/ PnWr("cb") \/ PnChk0("cb")
       \/ ShPick("cb") \/ ShWrite("cb")

Next ==
    \/ Register
    \/ LpReset
    \/ LpExists
    \/ LpWalk
    \/ LpCheck
    \/ \E t \in Threads : (t = "cb" => Registered) /\ ShPick(t)
    \/ \E t \in Threads : (t = "cb" => Registered) /\ ShWrite(t)
    \/ \E t \in Threads : (t = "cb" => Registered) /\ PnCheck(t)
    \/ \E t \in Threads : (t = "cb" => Registered) /\ PnGet(t)
    \/ \E t \in Threads : (t = "cb" => Registered) /\ PnLoad(t)
    \/ \E t \in Threads : (t = "cb" => Registered) /\ PnPlay(t)
    \/ \E t \in Threads : (t = "cb" => Registered) /\ PnRd(t)
    \/ \E t \in Threads : (t = "cb" => Registered) /\ PnWr(t)
    \/ \E t \in Threads : (t = "cb" => Registered) /\ PnChk0(t)
    \/ SwitchActivated
    \/ StartPlaying
    \/ SwitchDeactivated
    \/ StopPlaying
    \/ StStop
    \/ Poll
    \/ GetState
    \/ Sleep
    \/ Interrupt
    \/ Exit
    \/ Goodbye
    \/ TrackEnds
    \/ TrackFails
    \/ BufferStarts
    \/ BufferEnds
    \/ PauseStarts
    \/ PauseEnds

Spec == Init /\ [][Next]_vars

\* The behaviours of Spec in which the switch callbacks and the poll cycle
\* never overlap: a callback is delivered between two poll cycles, after
\* __init__, and the main thread waits while a callback runs.
Quiet == pc["cb"] = "idle"

BetweenCycles == pc["main"] \in {"poll", "sleep"}

SerialMainStep == Quiet /\ MainStep

SerialNext ==
    \/ SerialMainStep
    \/ Quiet /\ Interrupt
    \/ BetweenCycles /\ SwitchActivated
    \/ BetweenCycles /\ SwitchDeactivated
    \/ CbStep
    \/ TrackEnds
    \/ TrackFails
    \/ BufferStarts
    \/ BufferEnds
    \/ PauseStarts
    \/ PauseEnds

SerialSpec == Init /\ [][SerialNext]_vars

\* load_playlist on its own, as __init__ runs it when no switch event
\* arrives before run() starts, on every tree of ScanTrees.
ScanInit == InitWith(ScanTrees)

ScanNext ==
    \/ Register
    \/ LpReset
    \/ LpExists
    \/ LpWalk
    \/ LpCheck
    \/ ShPick("main")
    \/ ShWrite("main")

ScanSpec == ScanInit /\ [][ScanNext]_vars

\* The poll loop keeps running (the main thread is never starved), a switch
\* callback that has started runs to its end, a track that plays (again and
\* again, if it buffers or is paused) reaches its end unless the player fails
\* on it, and buffering and pauses end.  Switch events and the interrupt are
\* up to the user: no fairness.
FairSpec ==
    /\ Spec
    /\ WF_vars(MainStep)
    /\ WF_vars(CbStep)
    /\ SF_vars(TrackEnds)
    /\ WF_vars(BufferEnds)
    /\ WF_vars(PauseEnds)

\* The same, for the behaviours without overlap: the main thread waits
\* while a callback runs, and runs again whenever the callback has returned.
SerialFairSpec ==
    /\ SerialSpec
    /\ SF_vars(SerialMainStep)
    /\ WF_vars(CbStep)
    /\ SF_vars(TrackEnds)
    /\ WF_vars(BufferEnds)
    /\ WF_vars(PauseEnds)

\* -------------------------------------------------------------- properties
Running == pc["main"] \notin {"exit", "bye", "done"}

StopCmd(t) == Cmd("stop", 0, t)

\* The callback thread is in the second (or a later) of consecutive
\* start_playing calls.
SecondActivation == cbEvt = "start" /\ actRun = 2

\* C1 as stated: two activations in a row, with no deactivation between them,
\* cause exactly one load+play command and exactly one cursor advance.
C1_ExactlyOneLoadPlay ==
    (SecondActivation /\ pc["cb"] = "idle") => (actLoads = 1 /\ actAdv = 1)

C1_SecondIsNoOp ==
    SecondActivation =>
        /\ pc["cb"] \in {"sp_check", "idle"}
        /\ is_playing
        /\ cbCmds = <<>>
        /\ (pc["cb"] = "idle" => cbSaw)
        /\ actLoads <= 1
        /\ actAdv = actLoads
        /\ (actLoads = 0 => emptyLogs >= 1)

C1_SecondChangesNothing ==
    (SecondActivation /\ pc["cb"] = "sp_check" /\ pc'["cb"] # "sp_check") =>
        /\ pc'["cb"] = "idle"
        /\ UNCHANGED <<is_playing, current_index, playlist, media, status>>

\* C1, amended: two activations in a row cause at most one load+play command
\* and at most one cursor advance: one of each when the first activation
\* found a track to play, none when it found the playlist empty and logged
\* that.  The second activation reads PLAYING, sends no command and changes
\* neither the session state, the cursor, the playlist order nor the loaded
\* track.
C1_IdempotentActivation ==
    []C1_SecondIsNoOp /\ [][C1_SecondChangesNothing]_vars

C1_Witness ==
    SecondActivation /\ pc["cb"] = "idle" /\ actLoads = 1 /\ actAdv = 1

\* C2: stop_playing that reads PLAYING sets the session state to IDLE and
\* sends the backend exactly one stop(), and no load or play.
C2_StopWhilePlaying ==
    (cbEvt = "stop" /\ cbSaw) =>
        /\ pc["cb"] \in {"st_stop", "idle"}
        /\ ~is_playing
        /\ (pc["cb"] = "st_stop" => cbCmds = <<>>)
        /\ (pc["cb"] = "idle" => cbCmds = <<StopCmd("cb")>>)

C2_Witness ==
    /\ cbEvt = "stop" /\ cbSaw /\ pc["cb"] = "idle"
    /\ cbCmds = <<StopCmd("cb")>>
    /\ media # 0

C3_NoCommand ==
    (cbEvt = "stop" /\ ~cbSaw /\ pc["cb"] = "idle") => (cbCmds = <<>> /\ ~is_playing)

C3_NoWrite ==
    (pc["cb"] = "st_check" /\ ~is_playing /\ pc'["cb"] # "st_check") =>
        /\ pc'["cb"] = "idle"
        /\ cbCmds' = <<>>
        /\ UNCHANGED <<shared, backend>>

\* C3: stop_playing that reads IDLE is a no-op: it sends no backend command
\* and leaves the session state, the cursor, the playlist and the backend as
\* they were.
C3_StopWhileIdle ==
    []C3_NoCommand /\ [][C3_NoWrite]_vars

C3_Witness ==
    cbEvt = "stop" /\ ~cbSaw /\ pc["cb"] = "idle" /\ playlist # <<>> /\ media # 0

PollEnded ==
    pollSaw = "PLAYING" /\ pollState = "Ended" /\ playlist # <<>>

C4_OneLoadPlay ==
    (pc["main"] = "sleep" /\ PollEnded) =>
        /\ Len(pollCmds) = 2
        /\ pollCmds[1].op = "load"
        /\ pollCmds[2] = Cmd("play", 0, "main")
        /\ pollCmds[1].arg \in {tr \in 1..Len(tree) : tree[tr].kind = "file"}

C4_TrackAtCursor ==
    /\ (pc["main"] = "pn_get" /\ pc'["main"] = "pn_load") =>
           track'["main"] = playlist[current_index + 1]
    /\ (pc["main"] = "pn_load" /\ pc'["main"] = "pn_play") =>
           (pollCmds' = <<Cmd("load", track["main"], "main")>> /\ media' = track["main"])
    /\ (pc'["main"] # pc["main"]) => (is_playing' = is_playing)

\* C4: a poll that reads PLAYING and the backend status Ended, with a
\* non-empty playlist, sends exactly one load and one play, for the track at
\* the cursor when line 66 reads it, and does not write the session state.
C4_TrackCompletion ==
    []C4_OneLoadPlay /\ [][C4_TrackAtCursor]_vars

C4_Witness ==
    /\ pc["main"] = "sleep" /\ PollEnded /\ is_playing
    /\ pollCmds = <<Cmd("load", media, "main"), Cmd("play", 0, "main")>>

\* The main thread is between its read of is_playing (line 106) and the end
\* of the completion check it leads to.
PollInProgress ==
    \/ pc["main"] = "get_state"
    \/ pc["main"] \in PnLabels \cup ShLabels /\ ret["main"] = "sleep"

\* C5: a switch callback and the poll loop's completion check never execute
\* the state machine at the same time.
C5_Serialised ==
    ~(PollInProgress /\ pc["cb"] # "idle")

\* C7: within every block of len(playlist) consecutive play_next calls no
\* track is returned twice.
C7_PermutationPerCycle ==
    ~repeat

\* The scan is over and found no track.
ScanFoundNothing ==
    pc["main"] \notin {"register", "lp_reset", "lp_exists", "lp_walk", "lp_check"}
        /\ playlist = <<>>

\* C9: with an empty playlist an accepted activation leads to PLAYING, to no
\* load or play command, and to exactly one "No tracks to play" line however
\* many poll cycles follow.
C9_EmptyLoggedOnce ==
    (ScanFoundNothing /\ cbEvt = "start" /\ pc["cb"] = "idle" /\ is_playing) =>
        (emptyLogs = 1 /\ media = 0 /\ cbCmds = <<>> /\ current_index = 0)

\* C10: the poll cycle queries the backend only after it read PLAYING; a
\* cycle that read IDLE makes no status query and sends no command.
C10_PollOnlyWhilePlaying ==
    /\ (pollState # "none" => pollSaw = "PLAYING")
    /\ (pc["main"] = "get_state" => pollSaw = "PLAYING")
    /\ (pollSaw = "IDLE" =>
          /\ pc["main"] \in {"sleep", "exit", "bye", "done"}
          /\ pollState = "none"
          /\ pollCmds = <<>>)

C10_Witness ==
    /\ pc["main"] = "sleep" /\ pollSaw = "IDLE"
    /\ status = "Stopped" /\ playlist # <<>>

\* The tracks a scan can find.
TrackIds ==
    { k \in 1..Len(Catalogue) :
        Catalogue[k].kind = "file" /\ Supported(Catalogue[k].name) }

\* The scan is over.
ScanOver ==
    pc["main"] \notin {"register", "lp_reset", "lp_exists", "lp_walk", "lp_check"}
        /\ ~(pc["main"] \in ShLabels /\ ret["main"] = "poll")

\* Some thread passes line 70-71 with track tr.
LoadOf(tr) ==
    \E t \in Threads :
        pc[t] = "pn_load" /\ pc'[t] = "pn_play" /\ media' = tr

\* Track tr is in the playlist, the switch stays activated, the program is
\* not interrupted and the player does not fail.
StaysActivated(tr) ==
    /\ ScanOver /\ Running
    /\ is_playing
    /\ \E k \in 1..Len(playlist) : playlist[k] = tr
    /\ status # "Error"

\* C6: if the playlist is non-empty, the switch stays activated and the
\* backend reports the end of every track it is given, every track of the
\* playlist is loaded (and played) infinitely often.
C6_EndlessLoop ==
    \A tr \in TrackIds : <>[]StaysActivated(tr) => []<><<LoadOf(tr)>>_vars

\* C8: whenever the session state is PLAYING, the playlist is non-empty and
\* the backend reports Error for the current track, the controller eventually
\* issues load+play for the next track (the backend plays again), unless the
\* switch is turned off or the program is interrupted first.
C8_ErrorIsTrackFinished ==
    (is_playing /\ playlist # <<>> /\ status = "Error" /\ Running)
        ~> (status = "Playing" \/ ~is_playing \/ ~Running)

\* C11: a poll that finds the session PLAYING calls play_next when the
\* backend status is Ended or Stopped; when the status is Playing, Paused or
\* Buffering it sends no command to the backend and leaves the cursor, the
\* playlist order and the session state as they are.
StillPlaying == {"Playing", "Paused", "Buffering"}

C11_NoCommand ==
    (pc["main"] = "sleep" /\ pollState \in StillPlaying) => pollCmds = <<>>

C11_Unchanged ==
    (pc["main"] = "get_state" /\ status \in StillPlaying
        /\ pc'["main"] # "get_state")
    => /\ pc'["main"] \in {"sleep", "exit"}
       /\ UNCHANGED <<playlist, current_index, is_playing, status, media,
                      lastCmd>>

C11_Advances ==
    (pc["main"] = "get_state" /\ status \in {"Ended", "Stopped"}
        /\ pc'["main"] # "get_state")
    => pc'["main"] \in {"pn_check", "exit"}

C11_FinishedMapping ==
    []C11_NoCommand /\ [][C11_Unchanged /\ C11_Advances]_vars

C11_Witness ==
    /\ pc["main"] = "sleep"
    /\ pollSaw = "PLAYING"
    /\ pollState = "Paused"
    /\ playlist # <<>>
    /\ is_playing

\* C12: once every switch handler has returned, the session state is PLAYING
\* exactly when the last switch event was an activation (IDLE after a
\* deactivation and before any event), and is_playing is written by the two
\* switch handlers only: no step of the poll loop, of play_next (empty
\* playlist included) or of the backend changes it.
C12_MatchesSwitch == pc["cb"] = "idle" => (is_playing <=> cbEvt = "start")

C12_OnlySwitchWrites ==
    is_playing' # is_playing
    => /\ pc["cb"] \in {"sp_check", "st_check"}
       /\ pc'["cb"] # pc["cb"]
       /\ is_playing' = (cbEvt = "start")
       /\ UNCHANGED <<pc["main"], status>>

C12_SwitchIsAuthoritative ==
    []C12_MatchesSwitch /\ [][C12_OnlySwitchWrites]_vars

C12_Witness ==
    /\ pc["cb"] = "idle" /\ cbEvt = "start" /\ is_playing
    /\ ScanFoundNothing
    /\ pc["main"] = "sleep" /\ pollState = "Stopped"
    /\ emptyLogs = 2

\* C13: once the interrupted run loop has called stop() (line 116), the
\* player stays stopped until the process ends: stop() is the last command the
\* backend has received, whatever the session state was at the interrupt.
C13_StopOnExit ==
    pc["main"] \in {"bye", "done"} => (lastCmd.op = "stop" /\ status = "Stopped")

\* C14: the playlist load_playlist builds holds exactly the files of the tree
\* whose lower-cased name ends in .mp3, .wav, .ogg, .flac, .m4a or .aac, each
\* once; no other file and no directory is ever in it, during the scan or
\* after the shuffle.
AudioSuffixes ==
    { <<".", "m", "p", "3">>, <<".", "w", "a", "v">>, <<".", "o", "g", "g">>,
      <<".", "f", "l", "a", "c">>, <<".", "m", "4", "a">>, <<".", "a", "a", "c">> }

AudioFiles(n) ==
    { k \in 1..n : /\ tree[k].kind = "file"
                   /\ \E s \in AudioSuffixes : EndsWith(Lower(tree[k].name), s) }

C14_ScannerFilter ==
    /\ \A k \in 1..Len(playlist) : playlist[k] \in AudioFiles(scan)
    /\ \A k, l \in 1..Len(playlist) : playlist[k] = playlist[l] => k = l
    /\ pc["main"] \notin {"register", "lp_reset"}
          => { playlist[k] : k \in 1..Len(playlist) } = AudioFiles(scan)
    /\ ScanOver /\ exists => scan = Len(tree)

C14_Witness ==
    /\ pc["main"] = "poll"
    /\ tree = <<Catalogue[3], Catalogue[4], Catalogue[1]>>
    /\ playlist = <<3, 1>>

\* C15: while the session is IDLE after a deactivation (the handler has
\* returned and no activation has followed), the backend receives no load or
\* play command: the last command it has received, if any, is stop().
C15_NoPlaybackWhileIdle ==
    (cbEvt = "stop" /\ pc["cb"] = "idle" /\ ~is_playing)
    => lastCmd.op \in {"none", "stop"}

\* C16: a switch callback is inside play_next (or the reshuffle it calls) only
\* after load_playlist has finished scanning and shuffling, and an accepted
\* activation that has returned has sent load+play whenever the music
\* directory holds a supported file.
HasAudio ==
    exists /\ \E k \in 1..Len(tree) :
                 tree[k].kind = "file" /\ Supported(tree[k].name)

C16_PlaylistBuiltFirst ==
    /\ pc["cb"] \in PnLabels \cup ShLabels => ScanOver
    /\ (cbEvt = "start" /\ pc["cb"] = "idle" /\ ~cbSaw /\ HasAudio)
         => (Len(cbCmds) = 2 /\ cbCmds[1].op = "load" /\ cbCmds[2].op = "play")

\* C17: whenever the playlist is non-empty the cursor is a valid position of
\* it, and a play_next about to read playlist[current_index] (line 66) reads
\* inside the playlist, in every interleaving of the two threads.
C17_CursorBound ==
    /\ current_index >= 0
    /\ playlist # <<>> => current_index < Len(playlist)
    /\ \A t \in Threads : pc[t] = "pn_get" => current_index < Len(playlist)

C17_Witness ==
    /\ Len(playlist) = 2
    /\ current_index = 1
    /\ pc["cb"] = "pn_get"
    /\ pc["main"] = "pn_wr" /\ nidx["main"] = 1

\* C18: a play_next call goes on to random.shuffle exactly when the cursor it
\* has stored at line 75 is 0, after it has chosen and played its track; no
\* other call of play_next changes the order, and the playlist keeps its
\* tracks: no track is lost or doubled by a reshuffle.
C18_KeepsTracks ==
    \A k, l \in 1..Len(playlist) : playlist[k] = playlist[l] => k = l

C18_ExactlyOnWrap ==
    \A t \in Threads :
        (pc[t] = "pn_chk0" /\ pc'[t] \notin {"pn_chk0", "exit"})
        => (pc'[t] = "sh_pick" <=> nidx[t] = 0)

C18_OrderKeptOtherwise ==
    playlist' # playlist
    => \E t \in Threads :
          /\ pc[t] \in {"lp_reset", "lp_walk", "sh_write"}
          /\ pc[t] = "sh_write" /\ ret[t] # "poll" => nidx[t] = 0 /\ track[t] # 0

C18_EagerReshuffle ==
    []C18_KeepsTracks /\ [][C18_ExactlyOnWrap /\ C18_OrderKeptOtherwise]_vars

\* C19: the switch handlers do not touch the shuffle: no step of stop_playing
\* and no step of start_playing before play_next writes the cursor or the
\* playlist, and the play_next of an activation loads the track at the cursor
\* as it stands (no restart at position 0, no reshuffle before the load).
C19_HandlersLeaveShuffle ==
    (pc["cb"] \in {"st_check", "st_stop", "sp_check"} /\ pc'["cb"] # pc["cb"])
    => UNCHANGED <<playlist, current_index>>

C19_LoadsAtCursor ==
    /\ (pc["cb"] = "pn_get" /\ pc'["cb"] = "pn_load")
       => /\ track'["cb"] = playlist[current_index + 1]
          /\ UNCHANGED <<playlist, current_index>>
    /\ (pc["cb"] = "pn_load" /\ pc'["cb"] = "pn_play")
       => /\ media' = track["cb"]
          /\ UNCHANGED <<playlist, current_index>>

C19_ToggleKeepsShuffle ==
    [][C19_HandlersLeaveShuffle /\ C19_LoadsAtCursor]_vars

\* Under SerialSpec, when the cursor is not 0 the track loaded after a
\* deactivation is the successor of the interrupted one in the playlist.
C19_NextInPermutation ==
    (pc["cb"] = "pn_load" /\ pc'["cb"] = "pn_play"
        /\ status = "Stopped" /\ media # 0 /\ current_index # 0)
    => /\ playlist[current_index] = media
       /\ media' = playlist[current_index + 1]
       /\ media' # media

C19_SuccessorUnlessWrapped == [][C19_NextInPermutation]_vars

\* C19 as stated: in addition, the track an activation loads after a
\* deactivation is never the track that deactivation interrupted.
C19_NoReplay ==
    (pc["cb"] = "pn_load" /\ pc'["cb"] = "pn_play"
        /\ status = "Stopped" /\ media # 0)
    => media' # media

C19_ToggleNeverReplays ==
    [][C19_HandlersLeaveShuffle /\ C19_LoadsAtCursor /\ C19_NoReplay]_vars

C19_Witness ==
    /\ pc["cb"] = "pn_play" /\ cbEvt = "start"
    /\ status = "Stopped"
    /\ Len(playlist) = 2 /\ current_index = 1
    /\ media = playlist[2]
    /\ lastCmd = Last("load", "cb")

====
